---- MODULE Spec2Model ----
(***************************************************************************)
(* A model of webpack-closure-i18n: the XLIFF catalog parser               *)
(* (lib/translation-parser.js), the catalog loader and the source rewriter *)
(* (lib/closure-translater.js), and the webpack plugin that drives them.   *)
(*                                                                         *)
(* Text is a sequence of atoms.  An atom is one character ("a", "'",       *)
(* "\n", a digit ...) or one fixed chunk of program text that the code      *)
(* only ever treats as a unit ("var MSG_EXTERNAL_", " = ", "goog.getMsg(", *)
(* " + ").  A JavaScript string is such a sequence; `undefined` rendered   *)
(* by Array.prototype.join is the empty sequence.                          *)
(***************************************************************************)
EXTENDS Naturals, Sequences, FiniteSets, TLC

VARIABLES
    fsys,               \* path -> the sax event stream of the file at that path
    options,            \* the constructor's options object
    localeDataPromises, \* one promise per locale file (module-level variable)
    messagesLoaded,     \* the promise this.messagesLoaded
    messages,           \* this.messages: Null or locale -> (id -> unit)
    pc,                 \* position of the current translate call
    originalSource,     \* the text the current translate call gave buildI18n
    fileContents,       \* buildI18n: the input split into lines
    idx,                \* buildI18n: number of lines forEach has visited
    translatedOutput,   \* buildI18n: locale -> text built so far
    currentMessageCall, \* buildI18n: Null or the open MessageCall
    thrown,             \* the error the last translate call threw, or Null
    returned,           \* the value the last translate call returned, or Null
    warnings,           \* message ids console.warn was called with
    saxEvents,          \* readTranslationFile: events the stream still emits
    currentMessageTranslation, \* readTranslationFile: id of the open unit
    localeTranslations, \* readTranslationFile: id -> MessageTranslation
    deferred,           \* readTranslationFile: state of the q deferred
    config,             \* plugin: the configuration object
    translaters,        \* plugin: the Translater objects constructed so far
    translater,         \* plugin: self.translater, an index of translaters or 0
    runs,               \* plugin: one record per firing of the run hooks
    compilation         \* plugin: Null, or the compilation's assets

vars == <<fsys, options, localeDataPromises, messagesLoaded, messages, pc,
          originalSource, fileContents, idx, translatedOutput, currentMessageCall, thrown,
          returned, warnings, saxEvents, currentMessageTranslation,
          localeTranslations, deferred, config, translaters, translater, runs,
          compilation>>

translaterVars == <<fsys, options, localeDataPromises, messagesLoaded, messages,
                    pc, originalSource, fileContents, idx, translatedOutput, currentMessageCall,
                    thrown, returned, warnings>>

parserVars == <<saxEvents, currentMessageTranslation, localeTranslations, deferred>>

pluginVars == <<config, translaters, translater, runs, compilation>>

\* JavaScript null / undefined, where an object is expected
Null == [null |-> TRUE]

\* JavaScript null / undefined, where a string is expected
Undefined == <<"undefined">>

\* JavaScript undefined, where an array of tokens is expected
NoTokens == <<[type |-> "undefined"]>>

(***************************************************************************)
(* Atoms and string helpers                                                *)
(***************************************************************************)
VARMSG == "var MSG_EXTERNAL_"
EQ == " = "
GETMSG == "goog.getMsg("
PLUS == " + "
NL == "\n"
QUOTE == "'"
BACKSLASH == "\\"

Digits == {"0", "1", "2", "3", "4", "5", "6", "7", "8", "9"}

RECURSIVE Flatten(_)
\* Array.prototype.join(''): the concatenation of a sequence of texts
Flatten(ss) ==
    IF ss = <<>> THEN <<>> ELSE Head(ss) \o Flatten(Tail(ss))

RECURSIVE JoinWith(_, _)
\* Array.prototype.join(sep)
JoinWith(ss, sep) ==
    IF ss = <<>> THEN <<>>
    ELSE IF Len(ss) = 1 THEN ss[1]
    ELSE ss[1] \o sep \o JoinWith(Tail(ss), sep)

RECURSIVE Split(_, _)
\* String.prototype.split(sep) for a one-atom separator
Split(text, sep) ==
    LET hits == {i \in 1..Len(text) : text[i] = sep}
    IN  IF hits = {} THEN <<text>>
        ELSE LET i == CHOOSE j \in hits : \A k \in hits : j <= k
             IN  <<SubSeq(text, 1, i - 1)>> \o Split(SubSeq(text, i + 1, Len(text)), sep)

\* line.indexOf(s) > -1 for a one-atom s
Contains(line, atom) == \E i \in 1..Len(line) : line[i] = atom

\* whether pat occurs in text at position i
OccursAt(text, pat, i) ==
    /\ i + Len(pat) - 1 <= Len(text)
    /\ \A k \in 1..Len(pat) : text[i + k - 1] = pat[k]

RECURSIVE ReplaceAll(_, _, _)
\* String.prototype.replace(/pat/g, rep) for a pattern that matches pat literally
ReplaceAll(text, pat, rep) ==
    IF text = <<>> \/ pat = <<>> THEN text
    ELSE IF OccursAt(text, pat, 1)
         THEN rep \o ReplaceAll(SubSeq(text, Len(pat) + 1, Len(text)), pat, rep)
         ELSE <<Head(text)>> \o ReplaceAll(Tail(text), pat, rep)

RECURSIVE EscapeQuotes(_)
\* str.replace(/'/g, '\\\'')
EscapeQuotes(str) ==
    IF str = <<>> THEN <<>>
    ELSE (IF Head(str) = QUOTE THEN <<BACKSLASH, QUOTE>> ELSE <<Head(str)>>)
         \o EscapeQuotes(Tail(str))

\* toJSString: the string as a '-enclosed JS string
toJSString(str) == <<QUOTE>> \o EscapeQuotes(str) \o <<QUOTE>>

(***************************************************************************)
(* lib/translation-parser.js                                               *)
(***************************************************************************)
\* new MessageTranslation(id, datatype)
MessageTranslation(id, datatype) ==
    [_sourceTagOpen |-> FALSE, _targetTagOpen |-> FALSE, id |-> id,
     datatype |-> datatype, source |-> <<>>, target |-> <<>>]

\* the two kinds of element of a unit's source / target array
TextToken(str) == [type |-> "string", value |-> str]
XToken(id) == [type |-> "object", id |-> id]

\* sax events, in the shape the handlers read them
OpenTagEv(name, id) ==
    [ev |-> "opentag", name |-> name, id |-> id, datatype |-> "html", text |-> <<>>]
CloseTagEv(name) ==
    [ev |-> "closetag", name |-> name, id |-> <<>>, datatype |-> "", text |-> <<>>]
TextEv(str) ==
    [ev |-> "text", name |-> "", id |-> <<>>, datatype |-> "", text |-> str]
ErrorEv ==
    [ev |-> "error", name |-> "", id |-> <<>>, datatype |-> "", text |-> <<>>]
EndEv ==
    [ev |-> "end", name |-> "", id |-> <<>>, datatype |-> "", text |-> <<>>]

\* the parser's state: the closure variables of readTranslationFile.  The
\* open unit and its table entry are one object, so the cursor is the key.
ParserInit ==
    [cur |-> Undefined, table |-> <<>>, deferred |-> "pending", crashed |-> FALSE]

\* saxStream.on('opentag', ...)
openTagHandler(st, node) ==
    IF node.name = "trans-unit"
    THEN [st EXCEPT !.cur = node.id,
                    !.table = [k \in (DOMAIN st.table) \cup {node.id} |->
                                 IF k = node.id
                                 THEN MessageTranslation(node.id, node.datatype)
                                 ELSE st.table[k]]]
    ELSE IF node.name \in {"source", "target"}
    THEN IF st.cur = Undefined THEN [st EXCEPT !.crashed = TRUE]
         ELSE IF node.name = "source"
              THEN [st EXCEPT !.table[st.cur]._sourceTagOpen = TRUE]
              ELSE [st EXCEPT !.table[st.cur]._targetTagOpen = TRUE]
    ELSE IF node.name = "x"
    THEN IF st.cur = Undefined THEN [st EXCEPT !.crashed = TRUE]
         ELSE IF st.table[st.cur]._sourceTagOpen
              THEN [st EXCEPT !.table[st.cur].source = Append(@, XToken(node.id))]
              ELSE IF st.table[st.cur]._targetTagOpen
                   THEN [st EXCEPT !.table[st.cur].target = Append(@, XToken(node.id))]
                   ELSE st
    ELSE st

\* saxStream.on('closetag', ...)
closeTagHandler(st, nodeName) ==
    IF nodeName = "trans-unit" THEN [st EXCEPT !.cur = Undefined]
    ELSE IF nodeName \in {"source", "target"}
    THEN IF st.cur = Undefined THEN [st EXCEPT !.crashed = TRUE]
         ELSE IF nodeName = "source"
              THEN [st EXCEPT !.table[st.cur]._sourceTagOpen = FALSE]
              ELSE [st EXCEPT !.table[st.cur]._targetTagOpen = FALSE]
    ELSE st

\* textHandler with unshift in place of push
textHandlerUnshift(st, node) ==
    IF st.cur # Undefined /\ st.table[st.cur]._sourceTagOpen
    THEN [st EXCEPT !.table[st.cur].source = <<TextToken(node)>> \o @]
    ELSE IF st.cur # Undefined /\ st.table[st.cur]._targetTagOpen
    THEN [st EXCEPT !.table[st.cur].target = <<TextToken(node)>> \o @]
    ELSE st

\* saxStream.on('text', ...)
textHandler(st, node) ==
    IF st.cur # Undefined /\ st.table[st.cur]._sourceTagOpen
    THEN [st EXCEPT !.table[st.cur].source = Append(@, TextToken(node))]
    ELSE IF st.cur # Undefined /\ st.table[st.cur]._targetTagOpen
    THEN [st EXCEPT !.table[st.cur].target = Append(@, TextToken(node))]
    ELSE st

\* an error handler that leaves the deferred alone
errorHandlerSilent(st) == st

\* saxStream.on('error', ...): deferred.reject()
errorHandler(st) ==
    IF st.deferred = "pending" THEN [st EXCEPT !.deferred = "rejected"] ELSE st

\* saxStream.on('end', ...): deferred.resolve(localeTranslations)
endHandler(st) ==
    IF st.deferred = "pending" THEN [st EXCEPT !.deferred = "resolved"] ELSE st

\* one event delivered to the handler registered for it; a handler that
\* threw (a TypeError on a null cursor) ends the stream
Dispatch(st, e) ==
    IF st.crashed THEN st
    ELSE IF e.ev = "opentag" THEN openTagHandler(st, e)
    ELSE IF e.ev = "closetag" THEN closeTagHandler(st, e.name)
    ELSE IF e.ev = "text" THEN textHandler(st, e.text)
    ELSE IF e.ev = "error" THEN errorHandler(st)
    ELSE endHandler(st)

RECURSIVE RunStream(_, _)
\* saxStream.write(localeXML); saxStream.end()
RunStream(st, events) ==
    IF events = <<>> THEN st ELSE RunStream(Dispatch(st, Head(events)), Tail(events))

\* readTranslationFile(path): the promise it returns, settled
readTranslationFile(events) ==
    LET st == RunStream(ParserInit, events)
    IN  [state |-> IF st.crashed THEN "threw" ELSE st.deferred, value |-> st.table]

(***************************************************************************)
(* esprima, escodegen, underscore: the library calls buildI18n makes, on   *)
(* the program text a message definition can hold: a call                  *)
(*     goog.getMsg( arg , ... ) ;                                          *)
(* whose arguments are string literals, identifiers or object literals     *)
(* { 'key': value, ... }, with line breaks between tokens.                 *)
(***************************************************************************)
IdentAtoms == {"x", "y"}
LowerAtoms == {"a", "b"}
UpperAtoms == {"A", "B"}
SpaceAtoms == {NL, " "}

StrTok(value) == [t |-> "str", v |-> value]
SymTok(atom) == [t |-> "sym", v |-> <<atom>>]
EofTok == [t |-> "eof", v |-> <<>>]

RECURSIVE ScanString(_, _)
\* the tokenizer inside a string literal, from the atom after its opening
\* quote: the literal's value and the position after its closing quote
ScanString(s, i) ==
    IF i > Len(s) \/ s[i] = NL THEN [ok |-> FALSE, value |-> <<>>, next |-> i]
    ELSE IF s[i] = QUOTE THEN [ok |-> TRUE, value |-> <<>>, next |-> i + 1]
    ELSE IF s[i] = BACKSLASH
    THEN IF i + 1 > Len(s) THEN [ok |-> FALSE, value |-> <<>>, next |-> i]
         ELSE LET r == ScanString(s, i + 2)
              IN  [r EXCEPT !.value = <<s[i + 1]>> \o @]
    ELSE LET r == ScanString(s, i + 1)
         IN  [r EXCEPT !.value = <<s[i]>> \o @]

RECURSIVE Tokenize(_, _)
\* esprima's tokenizer: string literals, one-atom symbols, white space skipped
Tokenize(s, i) ==
    IF i > Len(s) THEN [ok |-> TRUE, toks |-> <<>>]
    ELSE IF s[i] \in SpaceAtoms THEN Tokenize(s, i + 1)
    ELSE IF s[i] = QUOTE
    THEN LET lit == ScanString(s, i + 1)
         IN  IF ~lit.ok THEN [ok |-> FALSE, toks |-> <<>>]
             ELSE LET rest == Tokenize(s, lit.next)
                  IN  [rest EXCEPT !.toks = <<StrTok(lit.value)>> \o @]
    ELSE LET rest == Tokenize(s, i + 1)
         IN  [rest EXCEPT !.toks = <<SymTok(s[i])>> \o @]

TokAt(toks, i) == IF i <= Len(toks) THEN toks[i] ELSE EofTok

\* AST nodes, with the fields buildI18n reads
LiteralNode(value) ==
    [type |-> "Literal", value |-> value, name |-> "", properties |-> Null]
IdentifierNode(name) ==
    [type |-> "Identifier", value |-> Null, name |-> name, properties |-> Null]
ObjectNode(properties) ==
    [type |-> "ObjectExpression", value |-> Null, name |-> "",
     properties |-> properties]
ParseFail == [ok |-> FALSE, node |-> Null, next |-> 0]

\* a primary expression: a string literal or an identifier
ParsePrimary(toks, i) ==
    IF TokAt(toks, i).t = "str"
    THEN [ok |-> TRUE, node |-> LiteralNode(TokAt(toks, i).v), next |-> i + 1]
    ELSE IF TokAt(toks, i).t = "sym" /\ TokAt(toks, i).v[1] \in IdentAtoms
    THEN [ok |-> TRUE, node |-> IdentifierNode(TokAt(toks, i).v[1]), next |-> i + 1]
    ELSE ParseFail

\* a parsed element put in front of the parsed rest of its list
Prepend(node, rest) ==
    IF rest.ok THEN [rest EXCEPT !.node = <<node>> \o @] ELSE ParseFail

RECURSIVE ParseProperties(_, _)
RECURSIVE PropertiesAfter(_, _, _)
\* the properties of an object literal, after the value of one of them
PropertiesAfter(toks, key, val) ==
    IF ~val.ok THEN ParseFail
    ELSE IF TokAt(toks, val.next) = SymTok("}")
    THEN [ok |-> TRUE,
          node |-> <<[key |-> LiteralNode(key.v), value |-> val.node]>>,
          next |-> val.next + 1]
    ELSE IF TokAt(toks, val.next) = SymTok(",")
    THEN Prepend([key |-> LiteralNode(key.v), value |-> val.node],
                 ParseProperties(toks, val.next + 1))
    ELSE ParseFail

\* the properties of an object literal, from its first key to its "}"
ParseProperties(toks, i) ==
    IF TokAt(toks, i).t = "str" /\ TokAt(toks, i + 1) = SymTok(":")
    THEN PropertiesAfter(toks, TokAt(toks, i), ParsePrimary(toks, i + 2))
    ELSE ParseFail

\* the object literal whose properties have been parsed
ObjectLiteral(props) ==
    IF props.ok
    THEN [ok |-> TRUE, node |-> ObjectNode(props.node), next |-> props.next]
    ELSE ParseFail

\* one argument of the call
ParseArgument(toks, i) ==
    IF TokAt(toks, i) = SymTok("{")
    THEN IF TokAt(toks, i + 1) = SymTok("}")
         THEN [ok |-> TRUE, node |-> ObjectNode(<<>>), next |-> i + 2]
         ELSE ObjectLiteral(ParseProperties(toks, i + 1))
    ELSE ParsePrimary(toks, i)

RECURSIVE ParseArguments(_, _)
RECURSIVE ArgumentsAfter(_, _)
\* the argument list, after one of its arguments
ArgumentsAfter(toks, arg) ==
    IF ~arg.ok THEN ParseFail
    ELSE IF TokAt(toks, arg.next) = SymTok(")")
    THEN [ok |-> TRUE, node |-> <<arg.node>>, next |-> arg.next + 1]
    ELSE IF TokAt(toks, arg.next) = SymTok(",")
    THEN Prepend(arg.node, ParseArguments(toks, arg.next + 1))
    ELSE ParseFail

\* the argument list, from its first argument to its ")"
ParseArguments(toks, i) == ArgumentsAfter(toks, ParseArgument(toks, i))

\* the argument list of the call, from the token after "goog.getMsg("
CallArguments(toks) ==
    IF TokAt(toks, 2) = SymTok(")")
    THEN [ok |-> TRUE, node |-> <<>>, next |-> 3]
    ELSE ParseArguments(toks, 2)

\* the syntax tree of a program that is one call statement
CallStatement(toks, args) ==
    IF args.ok /\ (\/ args.next = Len(toks) + 1
                   \/ args.next = Len(toks) /\ toks[args.next] = SymTok(";"))
    THEN [body |-> <<[type |-> "ExpressionStatement",
                      expression |-> [type |-> "CallExpression",
                                      arguments |-> args.node]]>>]
    ELSE Null

\* the program the tokens make, Null when they make none
ParseProgram(lexed) ==
    IF lexed.ok /\ TokAt(lexed.toks, 1) = SymTok(GETMSG)
    THEN CallStatement(lexed.toks, CallArguments(lexed.toks))
    ELSE Null

\* esprima.parse(code) inside try / catch: the syntax tree, or Null when
\* esprima throws (the text is not one complete statement)
esprima_parse(code) == ParseProgram(Tokenize(code, 1))

RECURSIVE EscapeLiteral(_)
\* escodegen's escaping inside a single-quoted literal
EscapeLiteral(str) ==
    IF str = <<>> THEN <<>>
    ELSE (IF Head(str) \in {QUOTE, BACKSLASH} THEN <<BACKSLASH, Head(str)>>
          ELSE IF Head(str) = NL THEN <<BACKSLASH, "n">>
          ELSE <<Head(str)>>)
         \o EscapeLiteral(Tail(str))

\* escodegen.generate(node) for a property value
escodegen_generate(node) ==
    IF node.type = "Identifier" THEN <<node.name>>
    ELSE <<QUOTE>> \o EscapeLiteral(node.value) \o <<QUOTE>>

RECURSIVE TrimLeft(_)
TrimLeft(str) ==
    IF str # <<>> /\ Head(str) \in SpaceAtoms THEN TrimLeft(Tail(str)) ELSE str

RECURSIVE TrimRight(_)
TrimRight(str) ==
    IF str # <<>> /\ str[Len(str)] \in SpaceAtoms
    THEN TrimRight(SubSeq(str, 1, Len(str) - 1)) ELSE str

RECURSIVE SplitWords(_, _)
\* .replace(/([a-z\d])([A-Z]+)/g, '$1_$2'): prev is the atom before str
SplitWords(str, prev) ==
    IF str = <<>> THEN <<>>
    ELSE (IF Head(str) \in UpperAtoms /\ prev \in LowerAtoms \cup Digits
          THEN <<"_", Head(str)>> ELSE <<Head(str)>>)
         \o SplitWords(Tail(str), Head(str))

RECURSIVE Dasherize(_)
\* .replace(/[-\s]+/g, '_')
Dasherize(str) ==
    IF str = <<>> THEN <<>>
    ELSE IF Head(str) \in SpaceAtoms \cup {"-"}
    THEN IF Len(str) > 1 /\ str[2] \in SpaceAtoms \cup {"-"}
         THEN Dasherize(Tail(str))
         ELSE <<"_">> \o Dasherize(Tail(str))
    ELSE <<Head(str)>> \o Dasherize(Tail(str))

toLowerCase(str) ==
    [i \in 1..Len(str) |->
        IF str[i] = "A" THEN "a" ELSE IF str[i] = "B" THEN "b" ELSE str[i]]

toUpperCase(str) ==
    [i \in 1..Len(str) |->
        IF str[i] = "a" THEN "A" ELSE IF str[i] = "b" THEN "B" ELSE str[i]]

\* underscore.string's underscored(str)
underscored(str) ==
    toLowerCase(Dasherize(SplitWords(TrimRight(TrimLeft(str)), "")))

\* a JavaScript object: its keys in insertion order and their values
EmptyObject == [keys |-> <<>>, val |-> <<>>]

HasKey(obj, k) == \E i \in 1..Len(obj.keys) : obj.keys[i] = k

SetKey(obj, k, v) ==
    [keys |-> IF HasKey(obj, k) THEN obj.keys ELSE Append(obj.keys, k),
     val |-> [j \in (DOMAIN obj.val) \cup {k} |-> IF j = k THEN v ELSE obj.val[j]]]

RECURSIVE ObjectFrom(_, _)
ObjectFrom(obj, pairs) ==
    IF pairs = <<>> THEN obj
    ELSE ObjectFrom(SetKey(obj, pairs[1][1], pairs[1][2]), Tail(pairs))

\* _.object(list): the object built from [key, value] pairs, a later pair
\* replacing an earlier one with the same key
object(pairs) == ObjectFrom(EmptyObject, pairs)

(***************************************************************************)
(* lib/closure-translater.js: buildI18n                                    *)
(***************************************************************************)
RECURSIVE DigitRun(_, _)
\* how many digit atoms line holds from position i on
DigitRun(line, i) ==
    IF i <= Len(line) /\ line[i] \in Digits THEN 1 + DigitRun(line, i + 1) ELSE 0

\* messageRegex tried at position i: var MSG_EXTERNAL_(\d+) = (.+)
MatchAt(line, i) ==
    LET d == DigitRun(line, i + 1)
    IN  /\ line[i] = VARMSG
        /\ d >= 1
        /\ i + d + 2 <= Len(line)
        /\ line[i + d + 1] = EQ

\* MatchId through Number(match[1]): digits past the 16th are lost
MatchIdAsNumber(line, i) ==
    [k \in 1..DigitRun(line, i + 1) |-> IF k <= 16 THEN line[i + k] ELSE "0"]

\* match[1] of line.match(messageRegex): the digits, as the string they are
MatchId(line, i) == SubSeq(line, i + 1, i + DigitRun(line, i + 1))

\* the two groups of the match at position i
Groups(line, i) ==
    [id |-> MatchId(line, i),
     definition |-> SubSeq(line, i + DigitRun(line, i + 1) + 2, Len(line))]

\* line.match(messageRegex): Null, or the two groups of the leftmost match
match(line) ==
    IF \E i \in 1..Len(line) : MatchAt(line, i)
    THEN Groups(line, CHOOSE j \in 1..Len(line) :
                        /\ MatchAt(line, j)
                        /\ \A k \in 1..(j - 1) : ~MatchAt(line, k))
    ELSE Null

\* new MessageCall(opts)
MessageCall(opts) == [id |-> opts.id, definition |-> opts.definition]

\* lines 118-126, m being line.match(messageRegex)
StartedOrContinued(call, line, m) ==
    IF Contains(line, GETMSG) /\ m # Null
    THEN MessageCall(m)
    ELSE IF call # Null
    THEN [call EXCEPT !.definition = @ \o line \o <<NL>>]
    ELSE call

\* lines 118-126: the MessageCall after the line has been looked at
StartOrContinue(call, line) == StartedOrContinued(call, line, match(line))

TypeError == [name |-> "TypeError", message |-> <<>>]

MissingTranslation(messageID) ==
    [name |-> "Error",
     message |-> <<"Failed to find translation for message ID: ">> \o messageID]

NotLoaded ==
    [name |-> "Error",
     message |-> <<"You must wait on the messagesLoaded Promise to ensure translations are loaded before calling translate()">>]

\* line 68: one property as a [key, value] pair
TemplateArgument(property) ==
    <<toUpperCase(underscored(property.key.value)), escodegen_generate(property.value)>>

\* lines 64-72, arguments being syntaxTree.body[0].expression.arguments
TemplateArguments(arguments) ==
    IF Len(arguments) < 2
    THEN [threw |-> FALSE, isMap |-> FALSE, map |-> EmptyObject]
    ELSE IF arguments[2].type # "ObjectExpression"
    THEN [threw |-> TRUE, isMap |-> FALSE, map |-> EmptyObject]
    ELSE [threw |-> FALSE, isMap |-> TRUE,
          map |-> object([i \in 1..Len(arguments[2].properties) |->
                            TemplateArgument(arguments[2].properties[i])])]

\* getGoogMsgArguments(syntaxTree): the key -> source text object, or false
\* (isMap = FALSE); threw when arguments[1] has no properties array
getGoogMsgArguments(syntaxTree) ==
    TemplateArguments(syntaxTree.body[1].expression.arguments)

\* replaceLocaleName when the first locale's substitution sticks to the line
replaceLocaleNameShared(line, locale, replacementRegex) ==
    IF replacementRegex # Undefined /\ \E i \in 1..Len(line) : OccursAt(line, replacementRegex, i)
    THEN ReplaceAll(line, replacementRegex, <<"en">>)
    ELSE line

\* replaceLocaleName with an expression that lacks the g flag
replaceLocaleNameOnce(line, locale, replacementRegex) ==
    IF replacementRegex # Undefined /\ \E i \in 1..Len(line) : OccursAt(line, replacementRegex, i)
    THEN LET i == CHOOSE j \in 1..Len(line) :
                    /\ OccursAt(line, replacementRegex, j)
                    /\ \A k \in 1..(j - 1) : ~OccursAt(line, replacementRegex, k)
         IN  SubSeq(line, 1, i - 1) \o <<locale>>
             \o SubSeq(line, i + Len(replacementRegex), Len(line))
    ELSE line

\* replaceLocaleName(line, locale); replacementRegex is Undefined or the text
\* the regular expression matches
replaceLocaleName(line, locale, replacementRegex) ==
    IF replacementRegex # Undefined /\ \E i \in 1..Len(line) : OccursAt(line, replacementRegex, i)
    THEN ReplaceAll(line, replacementRegex, <<locale>>)
    ELSE line

\* argumentIsLiteral(argumentAST)
argumentIsLiteral(argumentAST) == argumentAST.type = "Literal"

\* translations[locale][messageID], Null when there is none
Lookup(translations, locale, messageID) ==
    IF messageID \in DOMAIN translations.val[locale]
    THEN translations.val[locale][messageID]
    ELSE Null

\* lines 159-168: the arguments as the translation, if all are literals
LiteralFallback(messageID, expression) ==
    IF /\ expression.type = "CallExpression"
       /\ \A i \in 1..Len(expression.arguments) :
             argumentIsLiteral(expression.arguments[i])
    THEN [threw |-> Null,
          msgTranslation |->
              [target |-> [i \in 1..Len(expression.arguments) |->
                              TextToken(expression.arguments[i].value)],
               source |-> NoTokens]]
    ELSE [threw |-> MissingTranslation(messageID), msgTranslation |-> Null]

\* ResolveTranslation without the default locale: own unit, or the literals
ResolveTranslationOwnOnly(translations, defaultLocale, locale, messageID, definitionAST) ==
    IF Lookup(translations, locale, messageID) # Null
    THEN [threw |-> Null, msgTranslation |-> Lookup(translations, locale, messageID)]
    ELSE LiteralFallback(messageID, definitionAST.body[1].expression)

\* lines 152-169: the unit the locale's text is taken from
ResolveTranslation(translations, defaultLocale, locale, messageID, definitionAST) ==
    IF Lookup(translations, locale, messageID) # Null
    THEN [threw |-> Null, msgTranslation |-> Lookup(translations, locale, messageID)]
    ELSE IF ~HasKey(translations, defaultLocale)
    THEN [threw |-> TypeError, msgTranslation |-> Null]
    ELSE IF Lookup(translations, defaultLocale, messageID) # Null
    THEN [threw |-> Null,
          msgTranslation |-> Lookup(translations, defaultLocale, messageID)]
    ELSE LiteralFallback(messageID, definitionAST.body[1].expression)

\* ChooseTarget without lines 173-175
ChooseTargetOnly(msgTranslation) == msgTranslation.target

\* lines 171-175: the target, or the source when the target is empty
ChooseTarget(msgTranslation) ==
    IF msgTranslation.target # <<>> THEN msgTranslation.target
    ELSE msgTranslation.source

\* RenderToken without toJSString: the string between quotes, nothing escaped
RenderTokenBare(stringOrToken, templateArguments) ==
    IF stringOrToken.type = "object"
    THEN IF templateArguments.isMap /\ HasKey(templateArguments.map, stringOrToken.id)
         THEN templateArguments.map.val[stringOrToken.id]
         ELSE <<>>
    ELSE <<QUOTE>> \o stringOrToken.value \o <<QUOTE>>

\* lines 184-190: one token as JS source text
RenderToken(stringOrToken, templateArguments) ==
    IF stringOrToken.type = "object"
    THEN IF templateArguments.isMap /\ HasKey(templateArguments.map, stringOrToken.id)
         THEN templateArguments.map.val[stringOrToken.id]
         ELSE <<>>
    ELSE toJSString(stringOrToken.value)

\* line 192: the declaration line
Declaration(messageID, operands) ==
    <<VARMSG>> \o messageID \o <<EQ>> \o JoinWith(operands, <<PLUS>>) \o <<";", NL>>

\* lines 177-193: the declaration for the chosen tokens
Render(messageID, chosen, templateArguments) ==
    IF chosen = NoTokens
    THEN [threw |-> TypeError, text |-> <<>>, warned |-> FALSE]
    ELSE IF chosen = <<>>
    THEN [threw |-> Null,
          text |-> Declaration(messageID, <<toJSString(<<>>)>>),
          warned |-> TRUE]
    ELSE [threw |-> Null,
          text |-> Declaration(messageID,
                       [i \in 1..Len(chosen) |->
                           RenderToken(chosen[i], templateArguments)]),
          warned |-> FALSE]

\* lines 171-193, res being what lines 152-169 resolved
Emit(messageID, res, templateArguments) ==
    IF res.threw # Null
    THEN [threw |-> res.threw, text |-> <<>>, warned |-> FALSE]
    ELSE Render(messageID, ChooseTarget(res.msgTranslation), templateArguments)

\* lines 146-194, one locale: what is appended to translatedOutput[locale]
TranslateLocale(translations, defaultLocale, locale, messageID, definitionAST, templateArguments) ==
    Emit(messageID,
         ResolveTranslation(translations, defaultLocale, locale, messageID, definitionAST),
         templateArguments)

\* one pass of a forEach over the locales: r is what the callback did
AfterLocale(st, locale, messageID, r) ==
    IF r.threw # Null THEN [st EXCEPT !.thrown = r.threw]
    ELSE [st EXCEPT !.translatedOutput[locale] = @ \o r.text,
                    !.warnings = IF r.warned THEN @ \cup {messageID} ELSE @]

RECURSIVE ForEachLocale(_, _, _, _)
\* Object.keys(translations).forEach(...): the locales in key order, ended
\* by the first throw; body[locale] is what the callback does for locale.
\* st is [translatedOutput, currentMessageCall, warnings, thrown].
ForEachLocale(keys, st, messageID, body) ==
    IF keys = <<>> \/ st.thrown # Null THEN st
    ELSE ForEachLocale(Tail(keys),
                       AfterLocale(st, Head(keys), messageID, body[Head(keys)]),
                       messageID, body)

\* Object.keys(obj), as a set
KeySet(obj) == {obj.keys[i] : i \in 1..Len(obj.keys)}

\* line 196, unless a locale threw
Completed(st) ==
    IF st.thrown # Null THEN st ELSE [st EXCEPT !.currentMessageCall = Null]

\* lines 144-196: the definition is complete
TranslateDefinition(st, call, definitionAST, templateArguments, translations, defaultLocale) ==
    IF templateArguments.threw THEN [st EXCEPT !.thrown = TypeError]
    ELSE Completed(
            ForEachLocale(translations.keys, st, call.id,
                [locale \in KeySet(translations) |->
                    TranslateLocale(translations, defaultLocale, locale, call.id,
                                    definitionAST, templateArguments)]))

\* ContinueDefinition without the spacer line of lines 198-201
ContinueDefinitionNoSpacer(st, call, definitionAST, translations, defaultLocale) ==
    IF definitionAST # Null
    THEN TranslateDefinition(st, call, definitionAST,
                             getGoogMsgArguments(definitionAST),
                             translations, defaultLocale)
    ELSE st

\* lines 141-202: definitionAST is the tree, or Null when esprima threw
ContinueDefinition(st, call, definitionAST, translations, defaultLocale) ==
    IF definitionAST # Null
    THEN TranslateDefinition(st, call, definitionAST,
                             getGoogMsgArguments(definitionAST),
                             translations, defaultLocale)
    ELSE ForEachLocale(translations.keys, st, <<>>,
            [locale \in KeySet(translations) |->
                [threw |-> Null, text |-> <<NL>>, warned |-> FALSE]])

\* lines 137-209: call is currentMessageCall after lines 118-126
AfterStart(st, call, line, translations, defaultLocale, replacementRegex) ==
    IF call # Null
    THEN ContinueDefinition([st EXCEPT !.currentMessageCall = call], call,
                            esprima_parse(call.definition), translations,
                            defaultLocale)
    ELSE ForEachLocale(translations.keys, st, <<>>,
            [locale \in KeySet(translations) |->
                [threw |-> Null,
                 text |-> replaceLocaleName(line, locale, replacementRegex) \o <<NL>>,
                 warned |-> FALSE]])

\* lines 113-211: the forEach callback on one line.  st is
\* [translatedOutput, currentMessageCall, warnings, thrown].
ProcessLine(st, line, translations, defaultLocale, replacementRegex) ==
    AfterStart(st, StartOrContinue(st.currentMessageCall, line), line,
               translations, defaultLocale, replacementRegex)

(***************************************************************************)
(* Inputs: message ids, catalog files, constructor options, source texts   *)
(***************************************************************************)
MaxLines == 3

\* two 19-digit ids that differ in the last digit only
ID1 == <<"9", "1", "3", "3", "8", "9", "7", "7", "9", "3", "1", "7", "5", "0", "1", "3", "6", "2", "0">>
ID2 == <<"9", "1", "3", "3", "8", "9", "7", "7", "9", "3", "1", "7", "5", "0", "1", "3", "6", "2", "1">>

\* the placeholder id of the template key 'aB'
A_B == <<"A", "_", "B">>

RECURSIVE ChildEvents(_)
\* the events of the children of a <source> or <target>
ChildEvents(tokens) ==
    IF tokens = <<>> THEN <<>>
    ELSE (IF Head(tokens).type = "object"
          THEN <<OpenTagEv("x", Head(tokens).id), CloseTagEv("x")>>
          ELSE <<TextEv(Head(tokens).value)>>)
         \o ChildEvents(Tail(tokens))

\* the events of one <trans-unit>, laid out one element per line
UnitEvents(id, source, target) ==
    <<OpenTagEv("trans-unit", id), TextEv(<<NL>>), OpenTagEv("source", <<>>)>>
    \o ChildEvents(source)
    \o <<CloseTagEv("source"), TextEv(<<NL>>), OpenTagEv("target", <<>>)>>
    \o ChildEvents(target)
    \o <<CloseTagEv("target"), TextEv(<<NL>>), CloseTagEv("trans-unit"), TextEv(<<NL>>)>>

\* the events of a whole document
DocumentEvents(units) ==
    <<OpenTagEv("xliff", <<>>), TextEv(<<NL>>)>> \o Flatten(units)
    \o <<CloseTagEv("xliff"), EndEv>>

FileFull ==
    DocumentEvents(<<
        UnitEvents(ID1, <<TextToken(<<"a">>)>>, <<TextToken(<<"b">>)>>),
        UnitEvents(ID2, <<TextToken(<<"a">>), XToken(A_B)>>,
                   <<TextToken(<<"b", "'">>), XToken(A_B), TextToken(<<"a">>)>>)>>)

\* a target text that holds a line break
FileWrap ==
    DocumentEvents(<<
        UnitEvents(ID2, <<TextToken(<<"a">>), XToken(A_B)>>,
                   <<XToken(A_B), TextToken(<<"b", NL, "b">>)>>)>>)

\* a unit whose target is empty, and a unit whose source is empty too
FileEmptyTarget ==
    DocumentEvents(<<UnitEvents(ID1, <<TextToken(<<"a", "a">>)>>, <<>>),
                     UnitEvents(ID2, <<>>, <<>>)>>)

FileNone == DocumentEvents(<<>>)

\* a document that is not well formed
FileBad ==
    <<OpenTagEv("xliff", <<>>)>>
    \o UnitEvents(ID1, <<TextToken(<<"a">>)>>, <<TextToken(<<"b">>)>>)
    \o <<ErrorEv, EndEv>>

FS(en, es) == [path \in {"en.xlf", "es.xlf"} |-> IF path = "en.xlf" THEN en ELSE es]

FileSystems ==
    {FS(FileFull, FileFull), FS(FileFull, FileNone),
     FS(FileNone, FileNone), FS(FileFull, FileWrap), FS(FileFull, FileEmptyTarget),
     FS(FileEmptyTarget, FileNone),
     FS(FileFull, FileBad), FS(FileBad, FileFull), FS(FileBad, FileBad)}

\* options.localeFiles is an object: its keys in order, and their values
Options(replacementString) ==
    [localeFiles |-> object(<<<<"en", "en.xlf">>, <<"es", "es.xlf">>>>),
     defaultLocale |-> "en",
     replacementString |-> replacementString]

\* options that name the same file for both locales
SharedPathOptions ==
    [localeFiles |-> object(<<<<"en", "en.xlf">>, <<"es", "en.xlf">>>>),
     defaultLocale |-> "en",
     replacementString |-> <<"[", "L", "]">>]

\* options whose default locale is not one of the locales, as the plugin
\* passes when config.defaultLocale is left to its default
DefaultAbsentOptions ==
    [localeFiles |-> object(<<<<"es", "es.xlf">>>>),
     defaultLocale |-> "en",
     replacementString |-> <<"[", "L", "]">>]

\* the file systems and options a translater is constructed on: the token is
\* configured, or it is not and the default locale's file is empty or the
\* other file is broken, or the two locales share a file, or the default
\* locale has no file
Configs ==
    {[fsys |-> f, options |-> Options(<<"[", "L", "]">>)] : f \in FileSystems}
    \cup {[fsys |-> f, options |-> Options(<<>>)] :
             f \in {FS(FileNone, FileFull), FS(FileFull, FileBad)}}
    \cup {[fsys |-> FS(FileFull, FileFull), options |-> SharedPathOptions]}
    \cup {[fsys |-> FS(FileFull, FileNone), options |-> DefaultAbsentOptions]}

\* the lines a source text is made of
Lines ==
    {<<"[", "L", "]", "a", "[", "L", "]">>,
     <<VARMSG>> \o ID1 \o <<EQ, GETMSG, QUOTE, "a", QUOTE, ")", ";">>,
     <<VARMSG>> \o ID2 \o <<EQ, GETMSG>>,
     <<QUOTE, "a", QUOTE, ",">>,
     <<"{", QUOTE, "a", "B", QUOTE, ":", "x", "}", ")", ";">>,
     <<QUOTE, "b", QUOTE, ")", ";">>,
     <<"y", ")", ";">>,
     <<")", ";">>}

LineSeqs == UNION {[1..n -> Lines] : n \in 1..MaxLines}

\* the texts translate is called with
Texts == {JoinWith(ls, <<NL>>) : ls \in LineSeqs}

(***************************************************************************)
(* lib/closure-translater.js: ClosureTranslater                            *)
(***************************************************************************)
\* _.values(obj)
values(obj) == [i \in 1..Len(obj.keys) |-> obj.val[obj.keys[i]]]

\* _.invert(obj): values become keys, a later key replacing an earlier one
invert(obj) == object([i \in 1..Len(obj.keys) |-> <<obj.val[obj.keys[i]], obj.keys[i]>>])

\* new RegExp(replacementString.replace(/([.*+?^=!:${}()|\[\]\/\\])/g, '\\$1'), 'g'):
\* every metacharacter is escaped, so the expression matches the string itself
replacementRegex(opts) ==
    IF opts.replacementString # <<>> THEN opts.replacementString ELSE Undefined

messageFilenames(opts) == values(opts.localeFiles)
filenamesToLocales(opts) == invert(opts.localeFiles)

\* lines 256-260: the promises of loadMessages, before any callback has run;
\* readTranslationFile has settled each deferred synchronously
loadMessages(opts, files) ==
    [i \in 1..Len(messageFilenames(opts)) |->
        [filename |-> messageFilenames(opts)[i],
         read |-> readTranslationFile(files[messageFilenames(opts)[i]]),
         state |-> "pending",
         value |-> <<>>]]

\* the values of variables no translate call has touched yet
NoCall ==
    /\ pc = "idle"
    /\ originalSource = <<>>
    /\ fileContents = <<>>
    /\ idx = 0
    /\ translatedOutput = <<>>
    /\ currentMessageCall = Null
    /\ thrown = Null
    /\ returned = Null
    /\ warnings = {}

\* the parser's variables, when no stream is being stepped through
NoStream ==
    /\ saxEvents = <<>>
    /\ currentMessageTranslation = Undefined
    /\ localeTranslations = <<>>
    /\ deferred = "pending"

\* the plugin's variables, when no plugin has been applied
NoPlugin ==
    /\ config = Null
    /\ translaters = <<>>
    /\ translater = 0
    /\ runs = <<>>
    /\ compilation = Null

\* the state after new ClosureTranslater(options)
Init ==
    /\ \E c \in Configs : fsys = c.fsys /\ options = c.options
    /\ localeDataPromises = loadMessages(options, fsys)
    /\ messagesLoaded = "pending"
    /\ messages = Null
    /\ NoCall
    /\ NoStream
    /\ NoPlugin

\* line 257: the callback given to readTranslationFile(filename).then runs,
\* or the rejection passes through
FileRead(i) ==
    /\ pc = "idle"
    /\ localeDataPromises[i].state = "pending"
    /\ localeDataPromises' =
          [localeDataPromises EXCEPT
              ![i].state = IF localeDataPromises[i].read.state = "resolved"
                           THEN "resolved" ELSE "rejected",
              ![i].value = IF localeDataPromises[i].read.state = "resolved"
                           THEN <<filenamesToLocales(options).val[localeDataPromises[i].filename],
                                  localeDataPromises[i].read.value>>
                           ELSE <<>>]
    /\ UNCHANGED <<fsys, options, messagesLoaded, messages, pc, originalSource,
                   fileContents, idx, translatedOutput, currentMessageCall, thrown,
                   returned, warnings>>
    /\ UNCHANGED parserVars
    /\ UNCHANGED pluginVars

\* AllRead waiting for every promise to settle, and keeping what resolved
AllSettled ==
    /\ pc = "idle"
    /\ messagesLoaded = "pending"
    /\ \A i \in DOMAIN localeDataPromises : localeDataPromises[i].state # "pending"
    /\ messages' = object(SelectSeq([i \in DOMAIN localeDataPromises |->
                                        localeDataPromises[i].value],
                                    LAMBDA v : v # <<>>))
    /\ messagesLoaded' = "resolved"
    /\ UNCHANGED <<fsys, options, localeDataPromises, pc, originalSource,
                   fileContents, idx, translatedOutput, currentMessageCall, thrown,
                   returned, warnings>>
    /\ UNCHANGED parserVars
    /\ UNCHANGED pluginVars

\* lines 261-263: q.all resolved, the catalog is set
AllRead ==
    /\ pc = "idle"
    /\ messagesLoaded = "pending"
    /\ \A i \in DOMAIN localeDataPromises : localeDataPromises[i].state = "resolved"
    /\ messages' = object([i \in DOMAIN localeDataPromises |-> localeDataPromises[i].value])
    /\ messagesLoaded' = "resolved"
    /\ UNCHANGED <<fsys, options, localeDataPromises, pc, originalSource,
                   fileContents, idx, translatedOutput, currentMessageCall, thrown,
                   returned, warnings>>
    /\ UNCHANGED parserVars
    /\ UNCHANGED pluginVars

\* lines 264-266: q.all rejected at the first rejection
ReadFailed ==
    /\ pc = "idle"
    /\ messagesLoaded = "pending"
    /\ \E i \in DOMAIN localeDataPromises : localeDataPromises[i].state = "rejected"
    /\ messagesLoaded' = "rejected"
    /\ UNCHANGED <<fsys, options, localeDataPromises, messages, pc, originalSource,
                   fileContents, idx, translatedOutput, currentMessageCall, thrown,
                   returned, warnings>>
    /\ UNCHANGED parserVars
    /\ UNCHANGED pluginVars

\* Translate without the check of this.messages: buildI18n runs on null and
\* Object.keys throws
TranslateUnguarded(text) ==
    /\ pc = "idle"
    /\ returned' = Null
    /\ warnings' = {}
    /\ IF messages = Null
       THEN /\ thrown' = TypeError
            /\ pc' = "threw"
            /\ UNCHANGED <<originalSource, fileContents, idx, translatedOutput,
                           currentMessageCall>>
       ELSE /\ thrown' = Null
            /\ pc' = "forEach"
            /\ originalSource' = text
            /\ fileContents' = Split(text, NL)
            /\ idx' = 0
            /\ translatedOutput' =
                  [lang \in {messages.keys[i] : i \in 1..Len(messages.keys)} |-> <<>>]
            /\ currentMessageCall' = Null
    /\ UNCHANGED <<fsys, options, localeDataPromises, messagesLoaded, messages>>
    /\ UNCHANGED parserVars
    /\ UNCHANGED pluginVars

\* Translate with currentMessageCall kept from the call before, as a variable
\* of the module would be
TranslateSharedSpan(text) ==
    /\ pc \in {"idle", "returned", "threw"}
    /\ returned' = Null
    /\ warnings' = {}
    /\ IF messages = Null
       THEN /\ thrown' = NotLoaded
            /\ pc' = "threw"
            /\ UNCHANGED <<originalSource, fileContents, idx, translatedOutput,
                           currentMessageCall>>
       ELSE /\ thrown' = Null
            /\ pc' = "forEach"
            /\ originalSource' = text
            /\ fileContents' = Split(text, NL)
            /\ idx' = 0
            /\ translatedOutput' =
                  [lang \in {messages.keys[i] : i \in 1..Len(messages.keys)} |-> <<>>]
            /\ UNCHANGED currentMessageCall
    /\ UNCHANGED <<fsys, options, localeDataPromises, messagesLoaded, messages>>
    /\ UNCHANGED parserVars
    /\ UNCHANGED pluginVars

\* lines 278-283 and 46-53: translate(text) is called; it throws at once, or
\* enters buildI18n
Translate(text) ==
    /\ pc = "idle"
    /\ returned' = Null
    /\ warnings' = {}
    /\ IF messages = Null
       THEN /\ thrown' = NotLoaded
            /\ pc' = "threw"
            /\ UNCHANGED <<originalSource, fileContents, idx, translatedOutput,
                           currentMessageCall>>
       ELSE /\ thrown' = Null
            /\ pc' = "forEach"
            /\ originalSource' = text
            /\ fileContents' = Split(text, NL)
            /\ idx' = 0
            /\ translatedOutput' =
                  [lang \in {messages.keys[i] : i \in 1..Len(messages.keys)} |-> <<>>]
            /\ currentMessageCall' = Null
    /\ UNCHANGED <<fsys, options, localeDataPromises, messagesLoaded, messages>>
    /\ UNCHANGED parserVars
    /\ UNCHANGED pluginVars

\* the locals of buildI18n after the callback has run, or has thrown
AfterLine(st) ==
    /\ translatedOutput' = st.translatedOutput
    /\ currentMessageCall' = st.currentMessageCall
    /\ warnings' = st.warnings
    /\ thrown' = st.thrown
    /\ pc' = IF st.thrown # Null THEN "threw" ELSE "forEach"

\* lines 113-211: forEach calls its callback on the next line
ForEachLine ==
    /\ pc = "forEach"
    /\ idx < Len(fileContents)
    /\ idx' = idx + 1
    /\ AfterLine(ProcessLine([translatedOutput |-> translatedOutput,
                              currentMessageCall |-> currentMessageCall,
                              warnings |-> warnings, thrown |-> Null],
                             fileContents[idx + 1], messages,
                             options.defaultLocale, replacementRegex(options)))
    /\ UNCHANGED <<fsys, options, localeDataPromises, messagesLoaded, messages,
                   originalSource, fileContents, returned>>
    /\ UNCHANGED parserVars
    /\ UNCHANGED pluginVars

\* line 213: return translatedOutput
Return ==
    /\ pc = "forEach"
    /\ idx = Len(fileContents)
    /\ returned' = translatedOutput
    /\ pc' = "returned"
    /\ UNCHANGED <<fsys, options, localeDataPromises, messagesLoaded, messages,
                   originalSource, fileContents, idx, translatedOutput,
                   currentMessageCall, thrown, warnings>>
    /\ UNCHANGED parserVars
    /\ UNCHANGED pluginVars

\* the call's frame is gone: its caller has the value or the error, the
\* locals of buildI18n are garbage, and translate can be called again
CallEnds ==
    /\ pc \in {"returned", "threw"}
    /\ pc' = "idle"
    /\ originalSource' = <<>>
    /\ fileContents' = <<>>
    /\ idx' = 0
    /\ translatedOutput' = <<>>
    /\ currentMessageCall' = Null
    /\ thrown' = Null
    /\ returned' = Null
    /\ warnings' = {}
    /\ UNCHANGED <<fsys, options, localeDataPromises, messagesLoaded, messages>>
    /\ UNCHANGED parserVars
    /\ UNCHANGED pluginVars

Next ==
    \/ \E i \in DOMAIN localeDataPromises : FileRead(i)
    \/ AllRead
    \/ ReadFailed
    \/ \E text \in Texts : Translate(text)
    \/ ForEachLine
    \/ Return
    \/ CallEnds

Spec == Init /\ [][Next]_vars

(***************************************************************************)
(* Properties of translate: what one step of forEach appends               *)
(***************************************************************************)
\* the line forEach hands to its callback next
CurrentLine == fileContents[idx + 1]

\* the message call that is open once the callback has looked at that line
CallAfterLine == StartOrContinue(currentMessageCall, CurrentLine)

\* forEach runs its callback on one line
LineStep == pc = "forEach" /\ idx' = idx + 1

\* the callback completed a definition: a call was open, now none is, and
\* nothing was thrown
DefinitionCompletes ==
    /\ LineStep
    /\ CallAfterLine # Null
    /\ pc' = "forEach"
    /\ currentMessageCall' = Null

\* what the step appended to the output of locale L
Appended(L) ==
    SubSeq(translatedOutput'[L], Len(translatedOutput[L]) + 1, Len(translatedOutput'[L]))

\* the locales of the catalog
Locales == {messages.keys[i] : i \in 1..Len(messages.keys)}

\* locale L has a unit for id M
HasUnit(L, M) == HasKey(messages, L) /\ M \in DOMAIN messages.val[L]

\* the template-argument map of the call site that is open
SiteArguments == getGoogMsgArguments(esprima_parse(CallAfterLine.definition))

\* a string between single quotes, each single quote in it behind a backslash
Quoted(str) ==
    <<QUOTE>>
    \o Flatten([i \in 1..Len(str) |->
                   IF str[i] = QUOTE THEN <<BACKSLASH, QUOTE>> ELSE <<str[i]>>])
    \o <<QUOTE>>

\* every placeholder of the token array is a key of the map
AllBound(tokens, args) ==
    \A i \in 1..Len(tokens) :
        tokens[i].type = "object" => args.isMap /\ HasKey(args.map, tokens[i].id)

\* e_i of the declaration line
Operand(tok, args) ==
    IF tok.type = "string" THEN Quoted(tok.value) ELSE args.map.val[tok.id]

RECURSIVE Operands(_, _)
\* e1 + e2 + ... + en
Operands(tokens, args) ==
    IF Len(tokens) = 1 THEN Operand(tokens[1], args)
    ELSE Operand(tokens[1], args) \o <<PLUS>> \o Operands(Tail(tokens), args)

\* var MSG_EXTERNAL_<M> = e1 + ... + en; and the end of the line
DeclarationLine(M, tokens, args) ==
    <<VARMSG>> \o M \o <<EQ>> \o Operands(tokens, args) \o <<";", NL>>

C2_DefaultLocaleFallback ==
    [][DefinitionCompletes =>
          \A L \in Locales :
              (/\ ~HasUnit(L, CallAfterLine.id)
               /\ HasUnit(options.defaultLocale, CallAfterLine.id)
               /\ messages.val[options.defaultLocale][CallAfterLine.id].target # <<>>)
              => /\ Appended(L) = Appended(options.defaultLocale)
                 /\ \E i \in 1..Len(Appended(L)) :
                       OccursAt(Appended(L), <<VARMSG>> \o CallAfterLine.id, i)]_vars

\* es has no unit for ID1, en has, and the text returned for es holds en's
\* target
C2_Witness ==
    /\ pc = "returned"
    /\ ~HasUnit("es", ID1)
    /\ HasUnit("en", ID1)
    /\ \E i \in 1..Len(returned["es"]) :
          OccursAt(returned["es"],
                   <<VARMSG>> \o ID1 \o <<EQ, QUOTE, "b", QUOTE, ";", NL>>, i)

\* the arguments of the call site that is open, once its text parses
SiteParses == esprima_parse(CallAfterLine.definition) # Null
SiteArgumentNodes == esprima_parse(CallAfterLine.definition).body[1].expression.arguments

\* the literal arguments as plain-string tokens
LiteralTokens(nodes) == [i \in 1..Len(nodes) |-> [type |-> "string", value |-> nodes[i].value]]

\* C3: when the line completes the text of a call site whose arguments are
\* one or more literal strings, and the id has no unit in the default locale,
\* the step does not throw, and for every locale without a unit it emits the
\* declaration whose operands are those literals, quoted, in order.
C3_LiteralFallback ==
    [][(/\ LineStep
        /\ CallAfterLine # Null
        /\ SiteParses
        /\ Len(SiteArgumentNodes) >= 1
        /\ \A i \in 1..Len(SiteArgumentNodes) : SiteArgumentNodes[i].type = "Literal"
        /\ ~HasUnit(options.defaultLocale, CallAfterLine.id))
       => /\ thrown' = Null
          /\ pc' = "forEach"
          /\ \A L \in Locales :
                ~HasUnit(L, CallAfterLine.id)
                => Appended(L) =
                      DeclarationLine(CallAfterLine.id,
                                      LiteralTokens(SiteArgumentNodes),
                                      SiteArguments)]_vars

\* C4: when the line completes the text of a call site with a non-literal
\* argument, and the id has no unit in some locale nor in the default
\* locale, translate throws the error that names the id and returns nothing.
C4_MissingTranslationFatal ==
    [][(/\ LineStep
        /\ CallAfterLine # Null
        /\ SiteParses
        /\ \E i \in 1..Len(SiteArgumentNodes) : SiteArgumentNodes[i].type # "Literal"
        /\ ~HasUnit(options.defaultLocale, CallAfterLine.id)
        /\ \E L \in Locales : ~HasUnit(L, CallAfterLine.id))
       => /\ pc' = "threw"
          /\ thrown' = MissingTranslation(CallAfterLine.id)
          /\ returned' = Null]_vars

RECURSIVE LineEnds(_)
\* the number of line ends in a text
LineEnds(str) ==
    IF str = <<>> THEN 0
    ELSE (IF Head(str) = NL THEN 1 ELSE 0) + LineEnds(Tail(str))

\* C5: for every locale, the output holds exactly as many lines as forEach
\* has consumed, so a line after a definition sits at the line number it has
\* in the input.
C5_LineCountPreserved ==
    pc \in {"forEach", "returned"} =>
        \A L \in Locales : LineEnds(translatedOutput[L]) = idx

\* C6: while the load has not completed (pending or failed), a translate
\* call throws the usage error and returns nothing; a mapping is returned
\* only when messagesLoaded has resolved.
C6_TranslateNeedsLoad ==
    /\ messagesLoaded # "resolved" =>
          /\ pc \in {"idle", "threw"}
          /\ returned = Null
          /\ pc = "threw" => thrown = NotLoaded
    /\ returned # Null => messagesLoaded = "resolved"
    /\ pc = "forEach" => messages # Null

\* translate was called after the load failed, and threw the usage error
C6_Witness ==
    /\ pc = "threw"
    /\ thrown = NotLoaded
    /\ messagesLoaded = "rejected"
    /\ returned = Null

\* some locale's file failed to parse
SomeReadFailed ==
    \E i \in DOMAIN localeDataPromises : localeDataPromises[i].read.state = "rejected"

\* C7: when the parse of any one locale's file fails, in every order of the
\* callbacks messagesLoaded never resolves and can still only be rejected, the
\* catalog is never set, and no translate call gets past the usage error.
C7_AllOrNothing ==
    SomeReadFailed =>
        /\ messages = Null
        /\ messagesLoaded \in {"pending", "rejected"}
        /\ messagesLoaded = "pending" =>
              \E i \in DOMAIN localeDataPromises :
                  localeDataPromises[i].state \in {"pending", "rejected"}
        /\ pc # "forEach"
        /\ returned = Null

\* one locale was read successfully, another failed, the load is rejected,
\* and translate has thrown
C7_Witness ==
    /\ messagesLoaded = "rejected"
    /\ \E i \in DOMAIN localeDataPromises : localeDataPromises[i].state = "resolved"
    /\ \E i \in DOMAIN localeDataPromises : localeDataPromises[i].state = "rejected"
    /\ messages = Null
    /\ pc = "threw"

\* the line of the input that opened the call site that is open
OpenerLine ==
    fileContents[CHOOSE j \in 1..(idx + 1) :
                    /\ Contains(fileContents[j], VARMSG)
                    /\ \A k \in (j + 1)..(idx + 1) : ~Contains(fileContents[k], VARMSG)]

\* the digits between var MSG_EXTERNAL_ and the equals sign, as written
WrittenId == SubSeq(OpenerLine, 2, 20)

\* C9: an id of 19 digits appears digit for digit in the name of the emitted
\* declaration, and a locale that has a unit under exactly that id (units of
\* ids that differ in the last digit only being present too) gets that
\* unit's target, not another unit's.
C9_IdsAreStrings ==
    [][DefinitionCompletes =>
          \A L \in Locales :
              /\ SubSeq(Appended(L), 1, 21) = <<VARMSG>> \o WrittenId \o <<EQ>>
              /\ (/\ WrittenId \in DOMAIN messages.val[L]
                  /\ messages.val[L][WrittenId].target # <<>>
                  /\ AllBound(messages.val[L][WrittenId].target, SiteArguments))
                 => SubSeq(Appended(L), 22, Len(Appended(L))) =
                       Operands(messages.val[L][WrittenId].target, SiteArguments)
                       \o <<";", NL>>]_vars

\* es holds units for both ids, and the returned text declares both, each
\* with its own unit's target
C9_Witness ==
    /\ pc = "returned"
    /\ HasUnit("es", ID1) /\ HasUnit("es", ID2)
    /\ messages.val["es"][ID1].target # messages.val["es"][ID2].target
    /\ \E i \in 1..Len(returned["es"]) :
          OccursAt(returned["es"],
                   <<VARMSG>> \o ID1 \o <<EQ, QUOTE, "b", QUOTE, ";", NL>>, i)
    /\ \E i \in 1..Len(returned["es"]) :
          OccursAt(returned["es"],
                   <<VARMSG>> \o ID2 \o <<EQ, QUOTE, "b", BACKSLASH, QUOTE, QUOTE, PLUS>>, i)

\* no line of the input opens a message definition
NoOpener ==
    \A j \in 1..Len(fileContents) :
        ~(Contains(fileContents[j], GETMSG) /\ Contains(fileContents[j], VARMSG))

\* the text with every occurrence of the configured token replaced by L
Localized(str, L) ==
    IF options.replacementString = <<>> THEN str
    ELSE ReplaceAll(str, options.replacementString, <<L>>)

\* C10, as stated: for an input without opener lines, the text returned for
\* every locale equals the input text, except that the occurrences of the
\* configured token are replaced by the locale's name.
C10_Verbatim ==
    (pc = "returned" /\ NoOpener) =>
        \A L \in Locales : returned[L] = Localized(originalSource, L)

\* C10, amended: for an input without opener lines, the text returned for
\* every locale equals the input text followed by one more line end, except
\* that the occurrences of the configured token are replaced by the locale's
\* name.
C10_VerbatimPlusLineEnd ==
    (pc = "returned" /\ NoOpener) =>
        \A L \in Locales : returned[L] = Localized(originalSource, L) \o <<NL>>

\* a text without openers that holds the token twice on a line was returned
C10_Witness ==
    /\ pc = "returned"
    /\ NoOpener
    /\ options.replacementString # <<>>
    /\ \E i \in 1..Len(originalSource) :
          /\ OccursAt(originalSource, options.replacementString, i)
          /\ OccursAt(originalSource, options.replacementString, i + 4)
    /\ DOMAIN returned = {"en", "es"}
    /\ returned["es"] # returned["en"]

(***************************************************************************)
(* lib/translation-parser.js, one sax event at a time                      *)
(***************************************************************************)
MaxChildren == 2

\* the children a <source> or <target> is given
ChildTokens == {TextToken(<<"a">>), TextToken(<<"b">>), XToken(A_B)}
ChildSeqs == UNION {[1..n -> ChildTokens] : n \in 0..MaxChildren}

\* the first unit of a document
FirstUnits == {UnitEvents(ID1, src, tgt) : src \in ChildSeqs, tgt \in ChildSeqs}

\* the unit that may follow it: the same id once more, or the next id
SecondUnits ==
    {UnitEvents(id, <<XToken(A_B), TextToken(<<"b">>)>>, <<TextToken(<<"a">>)>>) :
        id \in {ID1, ID2}}

\* well-formed documents, and documents the parser gives up on after the
\* first unit
Documents ==
    {DocumentEvents(<<u>>) : u \in FirstUnits}
    \cup {DocumentEvents(<<u, v>>) : u \in FirstUnits, v \in SecondUnits}
    \cup {<<OpenTagEv("xliff", <<>>)>> \o u \o <<ErrorEv, EndEv>> : u \in FirstUnits}

\* the closure variables of readTranslationFile as the handlers take them
ParserState ==
    [cur |-> currentMessageTranslation, table |-> localeTranslations,
     deferred |-> deferred, crashed |-> FALSE]

\* the closure variables after a handler has returned, or has thrown out of
\* saxStream.write
AfterHandler(st) ==
    /\ currentMessageTranslation' = st.cur
    /\ localeTranslations' = st.table
    /\ deferred' = IF st.crashed THEN "threw" ELSE st.deferred
    /\ saxEvents' = IF st.crashed THEN <<>> ELSE Tail(saxEvents)
    /\ UNCHANGED <<fsys, options, localeDataPromises, messagesLoaded, messages, pc,
                   originalSource, fileContents, idx, translatedOutput,
                   currentMessageCall, thrown, returned, warnings>>
    /\ UNCHANGED pluginVars

\* lines 55-62: readTranslationFile has read the file and created the stream
InitParser ==
    /\ fsys \in {[path \in {"en.xlf"} |-> doc] : doc \in Documents}
    /\ saxEvents = fsys["en.xlf"]
    /\ currentMessageTranslation = Undefined
    /\ localeTranslations = <<>>
    /\ deferred = "pending"
    /\ options = Options(<<>>)
    /\ localeDataPromises = <<>>
    /\ messagesLoaded = "pending"
    /\ messages = Null
    /\ NoCall
    /\ NoPlugin

OnOpenTag ==
    /\ saxEvents # <<>>
    /\ Head(saxEvents).ev = "opentag"
    /\ AfterHandler(openTagHandler(ParserState, Head(saxEvents)))

OnCloseTag ==
    /\ saxEvents # <<>>
    /\ Head(saxEvents).ev = "closetag"
    /\ AfterHandler(closeTagHandler(ParserState, Head(saxEvents).name))

OnText ==
    /\ saxEvents # <<>>
    /\ Head(saxEvents).ev = "text"
    /\ AfterHandler(textHandler(ParserState, Head(saxEvents).text))

OnError ==
    /\ saxEvents # <<>>
    /\ Head(saxEvents).ev = "error"
    /\ AfterHandler(errorHandler(ParserState))

OnEnd ==
    /\ saxEvents # <<>>
    /\ Head(saxEvents).ev = "end"
    /\ AfterHandler(endHandler(ParserState))

NextParser ==
    \/ OnOpenTag
    \/ OnCloseTag
    \/ OnText
    \/ OnError
    \/ OnEnd

SpecParser == InitParser /\ [][NextParser]_vars

\* the events delivered so far
Delivered == SubSeq(fsys["en.xlf"], 1, Len(fsys["en.xlf"]) - Len(saxEvents))

\* the least member of a set of positions, or the position past the last
First(S, past) == IF S = {} THEN past ELSE CHOOSE i \in S : \A j \in S : i <= j

\* the position where the latest unit of id M opens
UnitOpen(evs, M) ==
    CHOOSE u \in 1..Len(evs) :
        /\ evs[u].ev = "opentag" /\ evs[u].name = "trans-unit" /\ evs[u].id = M
        /\ \A v \in (u + 1)..Len(evs) :
              ~(evs[v].ev = "opentag" /\ evs[v].name = "trans-unit" /\ evs[v].id = M)

\* the position of the first event of that kind and name after position u
FirstAfter(evs, u, kind, name) ==
    First({i \in (u + 1)..Len(evs) : evs[i].ev = kind /\ evs[i].name = name},
          Len(evs) + 1)

\* an event as the token it stands for
TokenOf(e) == IF e.ev = "text" THEN TextToken(e.text) ELSE XToken(e.id)

\* the text fragments and placeholder elements at positions lo..hi, in order
TokensBetween(evs, lo, hi) ==
    LET keep == SelectSeq([i \in 1..(hi - lo + 1) |-> evs[lo + i - 1]],
                          LAMBDA e : e.ev = "text" \/ (e.ev = "opentag" /\ e.name = "x"))
    IN  [i \in 1..Len(keep) |-> TokenOf(keep[i])]

\* the tokens between the open and the close of one side of the latest unit
\* of id M, as far as the events go
SideTokens(evs, M, side) ==
    LET open == FirstAfter(evs, UnitOpen(evs, M), "opentag", side)
        stop == First({FirstAfter(evs, UnitOpen(evs, M), "closetag", "trans-unit")}
                      \cup {FirstAfter(evs, open, "closetag", side)}, Len(evs) + 1)
    IN  IF open > Len(evs) \/ open > stop THEN <<>>
        ELSE TokensBetween(evs, open + 1, stop - 1)

\* C8: after every event, each entry of the table holds as its source (its
\* target) exactly the text fragments and placeholder elements delivered
\* between the open and the close of the source (the target) of its unit, in
\* the order of the document.
C8_ParserOrdering ==
    \A M \in DOMAIN localeTranslations :
        /\ localeTranslations[M].source = SideTokens(Delivered, M, "source")
        /\ localeTranslations[M].target = SideTokens(Delivered, M, "target")

\* a document was read to its end whose unit mixes text and a placeholder,
\* differently on the two sides
C8_Witness ==
    /\ saxEvents = <<>>
    /\ deferred = "resolved"
    /\ ID1 \in DOMAIN localeTranslations
    /\ localeTranslations[ID1].source = <<XToken(A_B), TextToken(<<"a">>)>>
    /\ localeTranslations[ID1].target = <<TextToken(<<"b">>), XToken(A_B)>>

(***************************************************************************)
(* Properties of a span of lines that holds one message definition         *)
(***************************************************************************)
\* the index of the input line that opened the call site that is open
OpenerIndex ==
    CHOOSE j \in 1..(idx + 1) :
        /\ Contains(fileContents[j], VARMSG)
        /\ \A k \in (j + 1)..(idx + 1) : ~Contains(fileContents[k], VARMSG)

\* the number of input lines the open definition has consumed, the line
\* forEach is on included
LinesConsumed == idx + 2 - OpenerIndex

\* n blank lines
Blank(n) == [i \in 1..n |-> NL]

\* the last n atoms of a text
Last(str, n) == SubSeq(str, Len(str) - n + 1, Len(str))

\* C11, as stated: when a definition of two or more lines completes, each
\* locale's output ends with the declaration line followed by the blank
\* lines that pad it to the number of lines consumed.
C11_DeclarationThenBlankLines ==
    [][(DefinitionCompletes /\ LinesConsumed >= 2) =>
          \A L \in Locales :
              Last(translatedOutput'[L], Len(Appended(L)) + LinesConsumed - 1) =
                  Appended(L) \o Blank(LinesConsumed - 1)]_vars

\* C11, amended: every line of a definition but its last emits one blank
\* line for each locale, and the line that completes it emits the
\* declaration; so the output of a definition of n lines is n - 1 blank lines
\* followed by the declaration line, which sits at the position of the
\* definition's last source line.
C11_BlankLinesThenDeclaration ==
    [][(LineStep /\ CallAfterLine # Null /\ pc' = "forEach") =>
          \A L \in Locales :
              IF currentMessageCall' # Null
              THEN Appended(L) = <<NL>> /\ translatedOutput'[L] = translatedOutput[L] \o <<NL>>
              ELSE /\ translatedOutput'[L] = translatedOutput[L] \o Appended(L)
                   /\ Appended(L)[1] = VARMSG
                   /\ Last(Appended(L), 2) = <<";", NL>>
                   /\ Last(translatedOutput[L], LinesConsumed - 1) = Blank(LinesConsumed - 1)]_vars

\* a definition of three lines was translated: two blank lines, then the
\* declaration, then the end of the text
C11_Witness ==
    /\ pc = "returned"
    /\ Len(fileContents) = 3
    /\ OccursAt(returned["es"], <<NL, NL, VARMSG>>, 1)
    /\ Last(returned["es"], 2) = <<";", NL>>

\* C12: once a span is open, every further line, a line that matches the
\* opener pattern included, is appended to it: after the line the span is
\* the old one grown by the line, or it has completed and the declaration
\* emitted is the one of the old span's id.
C12_SpanPersists ==
    [][(LineStep /\ currentMessageCall # Null /\ pc' = "forEach") =>
          IF currentMessageCall' # Null
          THEN currentMessageCall' =
                  [id |-> currentMessageCall.id,
                   definition |-> currentMessageCall.definition \o CurrentLine \o <<NL>>]
          ELSE \A L \in Locales :
                  SubSeq(Appended(L), 1, 1 + Len(currentMessageCall.id)) =
                      <<VARMSG>> \o currentMessageCall.id]_vars

\* C13, as stated: when a locale's unit for the id has an empty target and
\* the default locale's unit has a non-empty one, the declaration emitted
\* for the locale is rendered from the default locale's target.
C13_EmptyTargetUsesDefault ==
    [][DefinitionCompletes =>
          \A L \in Locales :
              (/\ HasUnit(L, CallAfterLine.id)
               /\ messages.val[L][CallAfterLine.id].target = <<>>
               /\ HasUnit(options.defaultLocale, CallAfterLine.id)
               /\ messages.val[options.defaultLocale][CallAfterLine.id].target # <<>>
               /\ AllBound(messages.val[options.defaultLocale][CallAfterLine.id].target,
                           SiteArguments))
              => Appended(L) =
                    DeclarationLine(CallAfterLine.id,
                                    messages.val[options.defaultLocale][CallAfterLine.id].target,
                                    SiteArguments)]_vars

\* C13, amended: when a locale's unit for the id has an empty target and a
\* non-empty source, the declaration emitted for the locale is rendered from
\* that unit's own source, whatever the default locale's unit holds.
C13_EmptyTargetUsesOwnSource ==
    [][DefinitionCompletes =>
          \A L \in Locales :
              (/\ HasUnit(L, CallAfterLine.id)
               /\ messages.val[L][CallAfterLine.id].target = <<>>
               /\ messages.val[L][CallAfterLine.id].source # <<>>
               /\ AllBound(messages.val[L][CallAfterLine.id].source, SiteArguments))
              => Appended(L) =
                    DeclarationLine(CallAfterLine.id,
                                    messages.val[L][CallAfterLine.id].source,
                                    SiteArguments)]_vars

\* es's unit of ID1 has an empty target and the source aa, en's has the
\* target b, and the text returned for es declares 'aa'
C13_Witness ==
    /\ pc = "returned"
    /\ HasUnit("es", ID1) /\ HasUnit("en", ID1)
    /\ messages.val["es"][ID1].target = <<>>
    /\ messages.val["en"][ID1].target = <<TextToken(<<"b">>)>>
    /\ \E i \in 1..Len(returned["es"]) :
          OccursAt(returned["es"],
                   <<VARMSG>> \o ID1 \o <<EQ, QUOTE, "a", "a", QUOTE, ";", NL>>, i)

\* every argument of the open call site is a literal
SiteAllLiteral ==
    \A i \in 1..Len(SiteArgumentNodes) : SiteArgumentNodes[i].type = "Literal"

\* the unit the fallback chain resolves for locale L: its own, the default
\* locale's, or the literal arguments of the call site (which have no source)
ResolvedUnit(L) ==
    IF HasUnit(L, CallAfterLine.id) THEN messages.val[L][CallAfterLine.id]
    ELSE IF HasUnit(options.defaultLocale, CallAfterLine.id)
    THEN messages.val[options.defaultLocale][CallAfterLine.id]
    ELSE [source |-> <<>>, target |-> LiteralTokens(SiteArgumentNodes)]

\* a unit resolves for every locale, and the call site has no second
\* argument or an object literal as its second argument
SiteResolves ==
    /\ LineStep
    /\ CallAfterLine # Null
    /\ SiteParses
    /\ Len(SiteArgumentNodes) >= 2 => SiteArgumentNodes[2].type = "ObjectExpression"
    /\ \A L \in Locales :
          \/ HasUnit(L, CallAfterLine.id)
          \/ HasUnit(options.defaultLocale, CallAfterLine.id)
          \/ SiteAllLiteral

\* var MSG_EXTERNAL_<M> = ''; and the end of the line
EmptyDeclarationLine(M) == <<VARMSG>> \o M \o <<EQ, QUOTE, QUOTE, ";", NL>>

\* C14: when the unit resolved for a locale (its own, the default locale's,
\* or the literal arguments) has an empty target, the step does not throw;
\* the unit's source is rendered if it is not empty, and otherwise the
\* declaration is emitted with the single literal '' and a warning is
\* recorded for the id.
C14_EmptyTranslationTolerated ==
    [][SiteResolves =>
          \A L \in Locales :
              ResolvedUnit(L).target = <<>> =>
                  /\ thrown' = Null
                  /\ pc' = "forEach"
                  /\ IF ResolvedUnit(L).source # <<>>
                     THEN AllBound(ResolvedUnit(L).source, SiteArguments) =>
                              Appended(L) = DeclarationLine(CallAfterLine.id,
                                                            ResolvedUnit(L).source,
                                                            SiteArguments)
                     ELSE /\ Appended(L) = EmptyDeclarationLine(CallAfterLine.id)
                          /\ CallAfterLine.id \in warnings']_vars

\* the stream has reported a parse error
ErrorReported == \E i \in 1..Len(Delivered) : Delivered[i].ev = "error"

\* C15: once the stream has reported a parse error the promise of
\* readTranslationFile is rejected, and it stays rejected through every
\* later event, the end event included: the units collected are never the
\* value of a resolved promise.
C15_ParseFailureTerminal == ErrorReported => deferred = "rejected"

\* the error and then the end event were delivered, units had been
\* collected, and the promise is rejected
C15_Witness ==
    /\ saxEvents = <<>>
    /\ ErrorReported
    /\ Delivered[Len(Delivered)].ev = "end"
    /\ ID1 \in DOMAIN localeTranslations
    /\ deferred = "rejected"

\* the line forEach is on opens a message definition
IsOpener(line) == Contains(line, GETMSG) /\ Contains(line, VARMSG)

\* C16: with no span open, a line that is not an opener is emitted for each
\* locale with every occurrence of the configured token, taken as literal
\* text, replaced by that locale's name, and unchanged when no token is
\* configured or the line does not hold it; the span stays closed and
\* nothing is thrown.
C16_ReplaceLocaleName ==
    [][(LineStep /\ currentMessageCall = Null /\ ~IsOpener(CurrentLine)) =>
          /\ pc' = "forEach"
          /\ currentMessageCall' = Null
          /\ \A L \in Locales :
                /\ translatedOutput'[L] = translatedOutput[L] \o Appended(L)
                /\ Appended(L) = Localized(CurrentLine, L) \o <<NL>>
                /\ (options.replacementString = <<>> \/
                    ~\E i \in 1..Len(CurrentLine) :
                        OccursAt(CurrentLine, options.replacementString, i))
                   => Appended(L) = CurrentLine \o <<NL>>]_vars

\* the line [L]a[L] was returned as enaen for en and as esaes for es
C16_Witness ==
    /\ pc = "returned"
    /\ options.replacementString = <<"[", "L", "]">>
    /\ fileContents[1] = <<"[", "L", "]", "a", "[", "L", "]">>
    /\ DOMAIN returned = {"en", "es"}
    /\ OccursAt(returned["en"], <<"en", "a", "en", NL>>, 1)
    /\ OccursAt(returned["es"], <<"es", "a", "es", NL>>, 1)

\* C17: a line that leaves the definition incomplete throws nothing and
\* warns of nothing; and when the end of the input is reached with the span
\* still open, translate returns, with no error and no further warning, for
\* every locale of the catalog a text of exactly one line per input line.
C17_UnterminatedDefinition ==
    [][/\ (LineStep /\ CallAfterLine # Null /\ ~SiteParses) =>
             /\ pc' = "forEach"
             /\ thrown' = Null
             /\ warnings' = warnings
       /\ (pc = "forEach" /\ idx = Len(fileContents) /\ currentMessageCall # Null) =>
             /\ pc' = "returned"
             /\ thrown' = Null
             /\ warnings' = warnings
             /\ DOMAIN returned' = Locales
             /\ \A L \in Locales : LineEnds(returned'[L]) = Len(fileContents)]_vars

(***************************************************************************)
(* Properties of a translate call as a whole                               *)
(***************************************************************************)
\* the locals of buildI18n before the first line
FreshCall ==
    [translatedOutput |-> [L \in Locales |-> <<>>], currentMessageCall |-> Null,
     warnings |-> {}, thrown |-> Null]

RECURSIVE RunLines(_, _)
\* the forEach callback on every line in turn, up to the first throw
RunLines(st, lines) ==
    IF lines = <<>> \/ st.thrown # Null THEN st
    ELSE RunLines(ProcessLine(st, Head(lines), messages, options.defaultLocale,
                              replacementRegex(options)),
                  Tail(lines))

\* what translate does on a text, given nothing but the text, the catalog
\* and the options
Outcome(str) == RunLines(FreshCall, Split(str, NL))

\* C18: no step of a translate call changes the catalog, and what the call
\* returns or throws is what the text, the catalog and the options alone
\* determine, whatever calls came before it.
C18_SelfContained ==
    [][/\ (pc # "idle" \/ pc' # "idle") => messages' = messages
       /\ (pc = "forEach" /\ pc' = "returned") =>
             /\ Outcome(originalSource).thrown = Null
             /\ returned' = Outcome(originalSource).translatedOutput
       /\ (pc = "forEach" /\ pc' = "threw") =>
             thrown' = Outcome(originalSource).thrown]_vars

\* a call has returned while its definition was still open; the next call
\* starts from here
C18_Witness ==
    /\ pc = "returned"
    /\ currentMessageCall # Null
    /\ returned = Outcome(originalSource).translatedOutput
    /\ messages # Null

\* the locales the options name
ConfiguredLocales == {options.localeFiles.keys[i] : i \in 1..Len(options.localeFiles.keys)}

\* C19: after a successful load the catalog has exactly one entry for every
\* locale of options.localeFiles, holding the units parsed from the file the
\* options name for it, and translate returns a text for every such locale.
C19_OneEntryPerLocale ==
    messagesLoaded = "resolved" =>
        /\ Locales = ConfiguredLocales
        /\ Len(messages.keys) = Cardinality(ConfiguredLocales)
        /\ \A L \in ConfiguredLocales :
              /\ HasKey(messages, L)
              /\ messages.val[L] =
                    readTranslationFile(fsys[options.localeFiles.val[L]]).value
        /\ pc = "returned" => DOMAIN returned = ConfiguredLocales

\* the text holds a declaration with an operand that is empty: nothing
\* between the equals sign, a plus sign or the semicolon and the next of them
EmptyOperand(str) ==
    \E i \in 1..Len(str) :
        \/ OccursAt(str, <<EQ, PLUS>>, i)
        \/ OccursAt(str, <<PLUS, PLUS>>, i)
        \/ OccursAt(str, <<PLUS, ";">>, i)
        \/ OccursAt(str, <<EQ, ";">>, i)

\* C20: whenever translate returns, no declaration of the text returned for
\* any locale has a missing or empty operand, also when a placeholder of the
\* resolved sequence has no entry in the call site's template-argument map
\* or the call site has no template argument.
C20_NoEmptyOperand ==
    pc = "returned" => \A L \in Locales : ~EmptyOperand(returned[L])

\* the catalog has no entry for the default locale
DefaultLocaleAbsent == ~HasKey(messages, options.defaultLocale)

\* C21: when the default locale is not a locale of the catalog and the line
\* completes the text of a call site whose id some locale has no unit for,
\* the step either throws nothing (the call site is literal-only) or throws
\* the missing-translation error that names the id; nothing else is thrown.
C21_DefaultAbsentFallsThrough ==
    [][(/\ LineStep
        /\ CallAfterLine # Null
        /\ SiteParses
        /\ DefaultLocaleAbsent
        /\ \E L \in Locales : ~HasUnit(L, CallAfterLine.id))
       => IF SiteAllLiteral
          THEN thrown' = Null /\ pc' = "forEach"
          ELSE thrown' = MissingTranslation(CallAfterLine.id) /\ pc' = "threw"]_vars

(***************************************************************************)
(* i18n-plugin.js: PostCompileI18nPlugin                                   *)
(***************************************************************************)
MaxRuns == 2

\* lines 20-34: the fields of the plugin object; '' and the empty text stand
\* for an option that was left out (a falsy value)
PostCompileI18nPlugin(cfg) ==
    [defaultLocale |-> IF cfg.defaultLocale # "" THEN cfg.defaultLocale ELSE "en-US",
     locales |-> cfg.locales,
     localeAliases |-> cfg.localeAliases,
     localeNameTemplateVar |->
         IF cfg.localeNameTemplateVar # <<>> THEN cfg.localeNameTemplateVar
         ELSE <<"[FAST_LOCALE]">>]

\* line 51: path.join(self.localePath, localeAlias + '.xlf')
XlfPath == [en |-> "en.xlf", es |-> "es.xlf"]

\* line 50: self.localeAliases[locale] || locale
localeAlias(self, locale) ==
    IF HasKey(self.localeAliases, locale) THEN self.localeAliases.val[locale]
    ELSE locale

\* lines 49-52: self.localeFiles after the forEach
localeFiles(self) ==
    object([i \in 1..Len(self.locales) |->
               <<self.locales[i], XlfPath[localeAlias(self, self.locales[i])]>>])

\* lines 53-57: the options the Translater is constructed with
TranslaterOptions(self) ==
    [localeFiles |-> localeFiles(self),
     defaultLocale |-> self.defaultLocale,
     replacementString |-> self.localeNameTemplateVar]

\* closure-translater.js lines 239-269: the object new Translater(opts)
\* returns; promises is the array loadMessages gave to q.all
Translater(opts, files) ==
    [options |-> opts,
     promises |-> loadMessages(opts, files),
     messagesLoaded |-> "pending",
     messages |-> Null]

RECURSIVE ReplaceFirst(_, _, _)
\* String.prototype.replace(pat, rep) for a string pat: the first occurrence
ReplaceFirst(text, pat, rep) ==
    IF text = <<>> \/ pat = <<>> THEN text
    ELSE IF OccursAt(text, pat, 1)
         THEN rep \o SubSeq(text, Len(pat) + 1, Len(text))
         ELSE <<Head(text)>> \o ReplaceFirst(Tail(text), pat, rep)

RECURSIVE forEachLine(_, _, _, _, _)
\* closure-translater.js lines 113-211: fileContents.forEach, ended by the
\* first throw
forEachLine(st, lines, translations, dflt, regex) ==
    IF lines = <<>> \/ st.thrown # Null THEN st
    ELSE forEachLine(ProcessLine(st, Head(lines), translations, dflt, regex),
                     Tail(lines), translations, dflt, regex)

\* closure-translater.js lines 44-214: buildI18n(fileContents, ...)
buildI18n(text, translations, dflt, regex) ==
    forEachLine([translatedOutput |-> [lang \in KeySet(translations) |-> <<>>],
                 currentMessageCall |-> Null, warnings |-> {}, thrown |-> Null],
                Split(text, NL), translations, dflt, regex)

\* closure-translater.js lines 278-283: t.translate(text), t being 0 for null
translate(t, text) ==
    IF t = 0 THEN [thrown |-> TypeError, translatedOutput |-> <<>>]
    ELSE IF translaters[t].messages = Null
    THEN [thrown |-> NotLoaded, translatedOutput |-> <<>>]
    ELSE buildI18n(text, translaters[t].messages, translaters[t].options.defaultLocale,
                   replacementRegex(translaters[t].options))

\* lines 80-86: one pass of self.locales.forEach; translations[locale] is
\* undefined when the catalog has no such key
AddLocaleAsset(comp, pathname, translations, locale, token) ==
    [comp EXCEPT
        !.additionalChunkAssets = Append(@, ReplaceFirst(pathname, token, <<locale>>)),
        !.assets = SetKey(@, ReplaceFirst(pathname, token, <<locale>>),
                          IF locale \in DOMAIN translations THEN translations[locale]
                          ELSE Undefined)]

RECURSIVE ForEachPluginLocale(_, _, _, _, _)
\* lines 80-86: self.locales.forEach
ForEachPluginLocale(comp, pathname, translations, locales, token) ==
    IF locales = <<>> THEN comp
    ELSE ForEachPluginLocale(
             AddLocaleAsset(comp, pathname, translations, Head(locales), token),
             pathname, translations, Tail(locales), token)

\* lines 77-86: the callback on one [pathname, asset] entry; r is what
\* self.translater.translate(source) returned or threw
TranslateAsset(comp, pathname, r, self) ==
    IF r.thrown # Null THEN [comp EXCEPT !.thrown = r.thrown]
    ELSE ForEachPluginLocale(comp, pathname, r.translatedOutput, self.locales,
                             self.localeNameTemplateVar)

RECURSIVE ForEachAsset(_, _, _, _)
\* lines 76-87: Object.entries(assets).forEach, over the entries the
\* compilation had when the hook fired, ended by the first throw
ForEachAsset(comp, entries, t, self) ==
    IF entries = <<>> \/ comp.thrown # Null THEN comp
    ELSE ForEachAsset(
             TranslateAsset(comp, entries[1][1], translate(t, entries[1][2]), self),
             Tail(entries), t, self)

\* Object.entries(obj)
entries(obj) == [i \in 1..Len(obj.keys) |-> <<obj.keys[i], obj.val[obj.keys[i]]>>]

\* the locale files on disk when a run hook fires
PluginFileSystems ==
    {FS(FileFull, FileFull), FS(FileFull, FileWrap), FS(FileFull, FileBad)}

\* the configurations the plugin is constructed with: two locales with the
\* default locale named, or one locale and the default locale left out
PluginConfigs ==
    {[locales |-> <<"en", "es">>, defaultLocale |-> "en",
      localeAliases |-> EmptyObject, localeNameTemplateVar |-> <<"[", "L", "]">>],
     [locales |-> <<"es">>, defaultLocale |-> "",
      localeAliases |-> EmptyObject, localeNameTemplateVar |-> <<"[", "L", "]">>]}

\* the assets a compilation holds when processAssets fires: filenames with
\* and without the placeholder; as sources a line with the placeholder and a
\* message definition
AssetSets ==
    {object(<<<<<<"m", ".", "j", "s">>, <<"[", "L", "]", "a", "[", "L", "]">>>>>>),
     object(<<<<<<"m", ".", "[", "L", "]", ".", "j", "s">>,
                <<VARMSG>> \o ID1 \o <<EQ, GETMSG, QUOTE, "a", QUOTE, ")", ";">>>>,
              <<<<"m", ".", "j", "s">>, <<"[", "L", "]", "a", "[", "L", "]">>>>>>)}

\* the translater's variables, which the plugin's actions leave alone; the
\* module-level localeDataPromises is not one of them
NoTranslater ==
    /\ fsys = FS(FileNone, FileNone)
    /\ options = Null
    /\ messagesLoaded = "pending"
    /\ messages = Null

\* lines 39-45: the plugin has been constructed and applied to a compiler
InitPlugin ==
    /\ config \in PluginConfigs
    /\ translaters = <<>>
    /\ translater = 0
    /\ runs = <<>>
    /\ compilation = Null
    /\ localeDataPromises = Undefined
    /\ NoTranslater
    /\ NoCall
    /\ NoStream

\* lines 48-66: onRun; files is what the locale files hold at that moment,
\* and loading the translaters whose load is still pending then.
\* loadMessages assigns the module-level localeDataPromises (line 256)
onRun(files) ==
    /\ Len(runs) < MaxRuns
    /\ translaters' =
          Append(translaters,
                 Translater(TranslaterOptions(PostCompileI18nPlugin(config)), files))
    /\ localeDataPromises' =
          loadMessages(TranslaterOptions(PostCompileI18nPlugin(config)), files)
    /\ translater' = Len(translaters) + 1
    /\ runs' = Append(runs, [translater |-> Len(translaters) + 1, files |-> files,
                             loading |-> {t \in DOMAIN translaters :
                                             translaters[t].messagesLoaded = "pending"},
                             callback |-> 0, threw |-> Null])
    /\ UNCHANGED <<config, compilation, fsys, options, messagesLoaded, messages>>
    /\ UNCHANGED <<pc, originalSource, fileContents, idx, translatedOutput,
                   currentMessageCall, thrown, returned, warnings>>
    /\ UNCHANGED parserVars

\* a promise of translater t after its then callback has run (line 257-259)
Settled(t, i) ==
    [translaters[t].promises[i] EXCEPT
        !.state = IF translaters[t].promises[i].read.state = "resolved"
                  THEN "resolved" ELSE "rejected",
        !.value = IF translaters[t].promises[i].read.state = "resolved"
                  THEN <<filenamesToLocales(translaters[t].options).val[
                             translaters[t].promises[i].filename],
                         translaters[t].promises[i].read.value>>
                  ELSE <<>>]

\* the plugin's actions leave these alone
PluginFrame ==
    /\ UNCHANGED <<fsys, options, messagesLoaded, messages>>
    /\ UNCHANGED <<pc, originalSource, fileContents, idx, translatedOutput,
                   currentMessageCall, thrown, returned, warnings>>
    /\ UNCHANGED parserVars

\* closure-translater.js lines 257-259, for translater t: the then callback
\* of its i-th file runs, or the rejection passes through.  The array the
\* module-level variable refers to is the one of the latest translater
FileReadOf(t, i) ==
    /\ translaters[t].promises[i].state = "pending"
    /\ translaters' = [translaters EXCEPT ![t].promises[i] = Settled(t, i)]
    /\ localeDataPromises' =
          IF t = Len(translaters)
          THEN [localeDataPromises EXCEPT ![i] = Settled(t, i)]
          ELSE localeDataPromises
    /\ UNCHANGED <<config, translater, runs, compilation>>
    /\ PluginFrame

\* AllReadOf reading the array through the module-level variable when q.all
\* settles
AllReadOfShared(t) ==
    /\ translaters[t].messagesLoaded = "pending"
    /\ \A i \in DOMAIN localeDataPromises : localeDataPromises[i].state = "resolved"
    /\ translaters' =
          [translaters EXCEPT
              ![t].messages = object([i \in DOMAIN localeDataPromises |->
                                         localeDataPromises[i].value]),
              ![t].messagesLoaded = "resolved"]
    /\ UNCHANGED <<config, translater, runs, compilation, localeDataPromises>>
    /\ PluginFrame

\* closure-translater.js lines 261-263, for translater t: q.all resolved
AllReadOf(t) ==
    /\ translaters[t].messagesLoaded = "pending"
    /\ \A i \in DOMAIN translaters[t].promises :
          translaters[t].promises[i].state = "resolved"
    /\ translaters' =
          [translaters EXCEPT
              ![t].messages = object([i \in DOMAIN translaters[t].promises |->
                                         translaters[t].promises[i].value]),
              ![t].messagesLoaded = "resolved"]
    /\ UNCHANGED <<config, translater, runs, compilation, localeDataPromises>>
    /\ PluginFrame

\* closure-translater.js lines 264-266, for translater t: q.all rejected
ReadFailedOf(t) ==
    /\ translaters[t].messagesLoaded = "pending"
    /\ \E i \in DOMAIN translaters[t].promises :
          translaters[t].promises[i].state = "rejected"
    /\ translaters' = [translaters EXCEPT ![t].messagesLoaded = "rejected"]
    /\ UNCHANGED <<config, translater, runs, compilation, localeDataPromises>>
    /\ PluginFrame

\* line 63: the fulfilment handler of run r calls the hook's callback
LoadFulfilled(r) ==
    /\ runs[r].callback = 0
    /\ runs[r].threw = Null
    /\ translaters[runs[r].translater].messagesLoaded = "resolved"
    /\ runs' = [runs EXCEPT ![r].callback = @ + 1]
    /\ UNCHANGED <<config, translaters, translater, compilation, localeDataPromises>>
    /\ PluginFrame

\* line 64: the rejection handler of run r throws; the promise then returned
\* is rejected and nothing handles it
LoadRejected(r) ==
    /\ runs[r].callback = 0
    /\ runs[r].threw = Null
    /\ translaters[runs[r].translater].messagesLoaded = "rejected"
    /\ runs' = [runs EXCEPT
                   ![r].threw = [name |-> "Error",
                                 message |-> <<"Failed to load translations!">>]]
    /\ UNCHANGED <<config, translaters, translater, compilation, localeDataPromises>>
    /\ PluginFrame

\* line 71: the compilation hook fires with a new compilation, whose assets
\* webpack has filled in by the time processAssets fires.  The compiler
\* compiles once a run hook has completed, and one compilation at a time
Compilation(assets) ==
    /\ \E r \in DOMAIN runs : runs[r].callback > 0
    /\ IF compilation = Null THEN TRUE ELSE compilation.processed
    /\ compilation' = [assets |-> assets, additionalChunkAssets |-> <<>>,
                       processed |-> FALSE, thrown |-> Null]
    /\ UNCHANGED <<config, translaters, translater, runs, localeDataPromises>>
    /\ PluginFrame

\* lines 75-88: the processAssets handler, as a whole
processAssets ==
    /\ compilation # Null
    /\ ~compilation.processed
    /\ compilation' =
          ForEachAsset([compilation EXCEPT !.processed = TRUE],
                       entries(compilation.assets), translater,
                       PostCompileI18nPlugin(config))
    /\ UNCHANGED <<config, translaters, translater, runs, localeDataPromises>>
    /\ PluginFrame

NextPlugin ==
    \/ \E files \in PluginFileSystems : onRun(files)
    \/ \E t \in DOMAIN translaters : \E i \in DOMAIN translaters[t].promises :
          FileReadOf(t, i)
    \/ \E t \in DOMAIN translaters : AllReadOf(t)
    \/ \E t \in DOMAIN translaters : ReadFailedOf(t)
    \/ \E r \in DOMAIN runs : LoadFulfilled(r)
    \/ \E r \in DOMAIN runs : LoadRejected(r)
    \/ \E assets \in AssetSets : Compilation(assets)
    \/ processAssets

SpecPlugin == InitPlugin /\ [][NextPlugin]_vars

\* the callbacks of settled promises
PromiseCallbacks ==
    \/ \E t \in DOMAIN translaters : \E i \in DOMAIN translaters[t].promises :
          FileReadOf(t, i)
    \/ \E t \in DOMAIN translaters : AllReadOf(t) \/ ReadFailedOf(t)
    \/ \E r \in DOMAIN runs : LoadFulfilled(r) \/ LoadRejected(r)

\* the event loop runs a callback that is ready; when the hooks fire is up
\* to webpack
SpecPluginLive == SpecPlugin /\ WF_vars(PromiseCallbacks)

(***************************************************************************)
(* Properties of translaters that load at the same time                    *)
(***************************************************************************)
\* what the file of locale L held when run r constructed its translater
OwnRead(r, L) ==
    readTranslationFile(
        runs[r].files[translaters[runs[r].translater].options.localeFiles.val[L]])

\* the locales run r configured its translater with
OwnLocales(r) == KeySet(translaters[runs[r].translater].options.localeFiles)

\* the catalog of run r's translater holds the units of its own files
OwnCatalog(r) ==
    /\ translaters[runs[r].translater].messages # Null
    /\ KeySet(translaters[runs[r].translater].messages) = OwnLocales(r)
    /\ \A L \in OwnLocales(r) :
          translaters[runs[r].translater].messages.val[L] = OwnRead(r, L).value

\* C22: of two translaters constructed while the load of the first is still
\* pending, each one's messagesLoaded resolves only if every one of its own
\* files parsed, and then its catalog holds exactly the units of its own
\* files; it is rejected only if one of its own files failed to parse; and
\* its catalog stays null until it has resolved.
C22_NoInterference ==
    \A r \in DOMAIN runs :
        /\ translaters[runs[r].translater].messagesLoaded = "resolved" =>
              /\ \A L \in OwnLocales(r) : OwnRead(r, L).state = "resolved"
              /\ OwnCatalog(r)
        /\ translaters[runs[r].translater].messagesLoaded = "rejected" =>
              \E L \in OwnLocales(r) : OwnRead(r, L).state # "resolved"
        /\ translaters[runs[r].translater].messagesLoaded # "resolved" =>
              translaters[runs[r].translater].messages = Null

\* the second translater was constructed while the first was loading, on
\* files that differ from the first one's; both have resolved, each with its
\* own catalog, and the module-level array is the second one's
C22_Witness ==
    /\ Len(runs) = 2
    /\ 1 \in runs[2].loading
    /\ runs[1].files # runs[2].files
    /\ translaters[1].messagesLoaded = "resolved"
    /\ translaters[2].messagesLoaded = "resolved"
    /\ OwnCatalog(1) /\ OwnCatalog(2)
    /\ translaters[1].messages # translaters[2].messages
    /\ localeDataPromises = translaters[2].promises

(***************************************************************************)
(* Properties of the run hooks                                             *)
(***************************************************************************)
\* the hook has fired for the r-th time
Fired(r) == Len(runs) >= r

\* the callback of the r-th firing has been invoked
CallbackInvoked(r) == Len(runs) >= r /\ runs[r].callback > 0

\* C23: every firing of the run / watch-run hook is followed by an invocation
\* of its callback, whether the load succeeds or fails, and the callback is
\* invoked only once the catalog of the run's translater is loaded.
C23_CallbackAlwaysInvoked ==
    /\ \A r \in 1..MaxRuns : [](Fired(r) => <>CallbackInvoked(r))
    /\ [](\A r \in DOMAIN runs :
              runs[r].callback > 0 => translaters[runs[r].translater].messages # Null)

(***************************************************************************)
(* Properties of processAssets                                             *)
(***************************************************************************)
\* the processAssets handler runs to its end without throwing
AssetsProcessed ==
    /\ compilation # Null
    /\ ~compilation.processed
    /\ compilation'.processed
    /\ compilation'.thrown = Null

\* the filename with locale L in the place of the placeholder
LocalizedName(pathname, L) ==
    ReplaceAll(pathname, PostCompileI18nPlugin(config).localeNameTemplateVar, <<L>>)

\* the rewritten text of locale L for the asset that was at pathname
RewrittenText(pathname, L) ==
    translate(translater, compilation.assets.val[pathname]).translatedOutput[L]

\* C24: once processAssets has run, for every asset the compilation held and
\* every configured locale L, the compilation holds an asset under the
\* filename with L in the place of the placeholder, and its content is L's
\* rewritten text of that asset; also for a filename without the placeholder.
C24_AssetPerLocale ==
    [][AssetsProcessed =>
          \A i \in 1..Len(compilation.assets.keys) :
              \A j \in 1..Len(config.locales) :
                  /\ HasKey(compilation'.assets,
                            LocalizedName(compilation.assets.keys[i], config.locales[j]))
                  /\ compilation'.assets.val[
                         LocalizedName(compilation.assets.keys[i], config.locales[j])]
                     = RewrittenText(compilation.assets.keys[i], config.locales[j])]_vars

====
